---- MODULE Spec2Model ----
(***************************************************************************)
(* Model of app.py: the per-persona generator generate() and the polling   *)
(* multiplexer chat.event_stream() that merges the persona streams into    *)
(* one server-sent event stream.                                           *)
(*                                                                         *)
(* Strings are sequences of symbols.  The six-character substring          *)
(* 'data: ' is the single symbol SEP, so that chunk.split('data: ') and    *)
(* json.loads are computed on the wire form of each record.                *)
(***************************************************************************)
EXTENDS Integers, Sequences, FiniteSets, TLC

\* ---------------------------------------------------------------- bounds
NumBots == 2
MaxChunks == 2

\* ------------------------------------------------------- program constants
\* MODELS.keys() in insertion order (app.py line 66)
MODELS == <<"logic", "creative", "technical", "philosophical", "humorous">>

\* the personas of one fan-out: the first NumBots keys of MODELS
Keys == SubSeq(MODELS, 1, NumBots)
Bots == {Keys[i] : i \in 1..Len(Keys)}

SEP == "data: "
NL == "\n\n"

\* contents an upstream delta can carry; <<>> is the empty string
Contents == {<<>>, <<"a">>, <<SEP>>}
\* str(e) of an upstream exception
Messages == {<<>>, <<"a">>, <<SEP>>}

\* what the provider can deliver on one read of the response stream
UpstreamEvents ==
    [k : {"chunk"}, v : Contents] \cup [k : {"end"}, v : {<<>>}]
        \cup [k : {"fail"}, v : Messages]

\* ------------------------------------------------------------ wire format
\* f"data: {json.dumps({'bot': bot_name, 'text': text})}\n\n"
TokenChunk(bot_name, text) ==
    <<SEP, "{", "bot", bot_name, "text">> \o text \o <<"}", NL>>

\* f"data: {json.dumps({'bot': bot_name, 'done': True})}\n\n"
DoneChunk(bot_name) ==
    <<SEP, "{", "bot", bot_name, "done", "true", "}", NL>>

\* f"data: {json.dumps({'bot': bot_name, 'error': str(e)})}\n\n"
ErrorChunk(bot_name, msg) ==
    <<SEP, "{", "bot", bot_name, "error">> \o msg \o <<"}", NL>>

\* f"data: {json.dumps({'all_done': True})}\n\n"
AllDoneChunk == <<SEP, "{", "all_done", "true", "}", NL>>

RECURSIVE SplitAcc(_, _, _, _)
SplitAcc(s, i, cur, acc) ==
    IF i > Len(s) THEN Append(acc, cur)
    ELSE IF s[i] = SEP THEN SplitAcc(s, i + 1, <<>>, Append(acc, cur))
    ELSE SplitAcc(s, i + 1, Append(cur, s[i]), acc)

\* chunk.split('data: ')
Split(s) == SplitAcc(s, 1, <<>>, <<>>)

\* json.loads(piece): a complete object, optionally followed by whitespace,
\* parses; a piece cut short inside the object raises JSONDecodeError
Loads(piece) ==
    LET n == IF piece # <<>> /\ piece[Len(piece)] = NL
             THEN Len(piece) - 1 ELSE Len(piece)
    IN  IF n >= 5 /\ piece[1] = "{" /\ piece[n] = "}" /\ piece[2] = "bot"
        THEN [ok |-> TRUE, bot |-> piece[3], key |-> piece[4],
              val |-> SubSeq(piece, 5, n - 1)]
        ELSE [ok |-> FALSE, bot |-> "", key |-> "", val |-> <<>>]

\* chunk_data.get('done') or chunk_data.get('error')   (truthiness)
IsTerminalMutText(chunk_data) ==
    \/ chunk_data.key = "done"
    \/ chunk_data.key = "error" /\ chunk_data.val # <<>>
    \/ chunk_data.key = "text" /\ chunk_data.val # <<>>

IsTerminal(chunk_data) ==
    \/ chunk_data.key = "done"
    \/ chunk_data.key = "error" /\ chunk_data.val # <<>>

\* lines 198-203: does the multiplexer take the chunk for a terminal record
Recognised(chunk) ==
    LET pieces == Split(chunk)
    IN  IF Len(pieces) < 2 THEN FALSE            \* IndexError
        ELSE LET chunk_data == Loads(pieces[2])
             IN  chunk_data.ok /\ IsTerminal(chunk_data)

\* active_bots.remove(bot_name)
RemoveMutNone(ab, bot_name) == ab

RemoveMutPop(ab, bot_name) == SubSeq(ab, 1, Len(ab) - 1)

Remove(ab, bot_name) == SelectSeq(ab, LAMBDA b : b # bot_name)

\* line 194: the copy active_bots[:] the for loop walks
SnapshotMutFirst(ab) == <<Head(ab)>>

SnapshotMutReversed(ab) == [i \in 1..Len(ab) |-> ab[Len(ab) + 1 - i]]

Snapshot(ab) == ab

\* while active_bots:
LoopContinuesMutOne(ab) == Len(ab) > 1

LoopContinues(ab) == ab # <<>>

\* line 110: chunk.choices[0].delta.content is truthy
HasContent(content) == content # <<>>

\* line 113: except Exception catches every failure raised inside the try
CatchesMutNone(msg) == FALSE

Catches(msg) == TRUE

\* ------------------------------------------------------------------ state
VARIABLES
    pc,           \* position of event_stream
    generators,   \* persona -> position of its generate() generator
    active_bots,  \* the list active_bots
    todo,         \* rest of the copy active_bots[:] the for loop walks
    chunk,        \* the chunk last yielded by event_stream
    out,          \* the combined stream: chunks yielded by event_stream
    conn,         \* personas whose OpenAI client and response are alive
    ready,        \* persona -> the provider has data waiting to be read
    script        \* persona -> upstream events read so far

\* the process and one browser session, as the routes outside the fan-out
\* read and write them
VARIABLES
    proc,         \* "starting", "serving" or "exited" (module level code)
    env,          \* the environment after load_dotenv()
    log,          \* the messages written by logger.error at startup
    session,      \* the Flask session: key -> value
    nreq,         \* requests handled so far
    synth_calls,  \* calls of client.chat.completions.create made by asklurk
    fanouts,      \* event_stream generators handed to Response by chat
    writes,       \* files saved by upload
    req,          \* the last request: its route and what the caller sent
    resp          \* the response to the last request

cvars == <<pc, generators, active_bots, todo, chunk, out, conn, ready, script>>
wvars == <<proc, env, log, session, nreq, synth_calls, fanouts, writes, req, resp>>
vars == <<cvars, wvars>>

\* ------------------------------------------- process, session and routes
MaxRequests == 3
MaxFiles == 1

\* os.environ.get of a variable that is not set gives None
Unset == "<unset>"
EnvValues == {Unset, "", "v"}
EnvNames == {"SESSION_SECRET", "GOOGLE_CLIENT_ID", "GOOGLE_CLIENT_SECRET",
             "OPENROUTER_API_KEY"}

\* truthiness of an optional string: None and "" are false
Truthy(v) == v # Unset /\ v # ""

\* line 32: if not app.secret_key
SecretMissing(secret_key) == ~Truthy(secret_key)

\* line 40: if not GOOGLE_CLIENT_ID or not GOOGLE_CLIENT_SECRET
GoogleMissingMutAnd(id, secret) == ~Truthy(id) /\ ~Truthy(secret)

GoogleMissing(id, secret) == ~Truthy(id) \/ ~Truthy(secret)

\* line 59: if not KEY
KeyMissingMutNone(KEY) == KEY = Unset

KeyMissing(KEY) == ~Truthy(KEY)

\* a key that is not in the session
Absent == "<absent>"
SessionKeys == {"google_id", "name", "picture", "state"}
EmptySession == [k \in SessionKeys |-> Absent]

\* line 120: "google_id" in session
IsLoggedInMutAnyKey(s) == \E k \in SessionKeys : s[k] # Absent

IsLoggedIn(s) == s["google_id"] # Absent

\* the keys a caller can put into the answers map: a persona and a stranger
AnswerKeys == {"logic", "other"}

\* line 231: not answers
NotAnswersMutUnknown(answers) == ~\E k \in answers : k = MODELS[1]

NotAnswersMutNever(answers) == FALSE

NotAnswers(answers) == answers = {}

Response(route, status, kind, body) ==
    [route |-> route, status |-> status, kind |-> kind, body |-> body]

NoResponse == Response("", 0, "", <<>>)

\* a request: answers is the answers map of a synthesis request (its keys),
\* returned tells whether the provider answers the synthesis call
Request(route, answers, returned) ==
    [route |-> route, answers |-> answers, returned |-> returned]

\* line 121: redirect(url_for('login_page'))
RedirectLogin(route) == Response(route, 302, "redirect", <<"/login">>)

Suspended == {"created", "at_token", "at_done", "at_error"}

TypeOK ==
    /\ pc \in {"idle", "while", "for", "blocked", "yielded", "alldone",
               "finished", "crashed", "cancelled"}
    /\ generators \in [Bots -> Suspended \cup {"waiting", "finished", "raised"}]
    /\ conn \subseteq Bots
    /\ ready \in [Bots -> BOOLEAN]

\* the fan-out of one chat request of a logged-in session, before the first
\* record is asked for
Init ==
    /\ pc = "idle"
    /\ generators = [b \in Bots |-> "created"]
    /\ active_bots = <<>>
    /\ todo = <<>>
    /\ chunk = <<>>
    /\ out = <<>>
    /\ conn = {}
    /\ ready = [b \in Bots |-> FALSE]
    /\ script = [b \in Bots |-> <<>>]
    /\ proc = "serving"
    /\ env = [n \in EnvNames |-> "v"]
    /\ log = <<>>
    /\ session = [EmptySession EXCEPT !["google_id"] = "u1"]
    /\ nreq = 0
    /\ synth_calls = 0
    /\ fanouts = 1
    /\ writes = 0
    /\ req = Request("chat", {}, FALSE)
    /\ resp = Response("chat", 200, "stream", <<>>)

\* position of the for loop after one iteration
NextPc(rest) == IF rest = <<>> THEN "while" ELSE "for"

\* lines 191-192: the generator objects are created (no body runs yet)
Start ==
    /\ pc = "idle"
    /\ pc' = "while"
    /\ active_bots' = Keys
    /\ UNCHANGED <<generators, todo, chunk, out, conn, ready, script>>
    /\ UNCHANGED wvars

\* lines 193-194: while active_bots: for bot_name in active_bots[:]
BeginPass ==
    /\ pc = "while"
    /\ LoopContinues(active_bots)
    /\ todo' = Snapshot(active_bots)
    /\ pc' = "for"
    /\ UNCHANGED <<generators, active_bots, chunk, out, conn, ready, script>>
    /\ UNCHANGED wvars

\* line 206: yield all_done
EmitAllDone ==
    /\ pc = "while"
    /\ ~LoopContinues(active_bots)
    /\ out' = Append(out, AllDoneChunk)
    /\ chunk' = AllDoneChunk
    /\ pc' = "alldone"
    /\ UNCHANGED <<generators, active_bots, todo, conn, ready, script>>
    /\ UNCHANGED wvars

\* line 196, first call: the body of generate starts; line 96 builds the
\* client outside the try, lines 103-108 send the request
CallNextFirst ==
    /\ pc = "for"
    /\ LET bot_name == Head(todo) IN
        /\ generators[bot_name] = "created"
        /\ \E built \in BOOLEAN :
            IF built
            THEN /\ conn' = conn \cup {bot_name}
                 /\ generators' = [generators EXCEPT ![bot_name] = "waiting"]
                 /\ pc' = "blocked"
            ELSE /\ conn' = conn
                 /\ generators' = [generators EXCEPT ![bot_name] = "raised"]
                 /\ pc' = "crashed"
    /\ UNCHANGED <<active_bots, todo, chunk, out, ready, script>>
    /\ UNCHANGED wvars

\* line 196, generator suspended at line 111: back into for chunk in stream
CallNextResume ==
    /\ pc = "for"
    /\ LET bot_name == Head(todo) IN
        /\ generators[bot_name] = "at_token"
        /\ generators' = [generators EXCEPT ![bot_name] = "waiting"]
    /\ pc' = "blocked"
    /\ UNCHANGED <<active_bots, todo, chunk, out, conn, ready, script>>
    /\ UNCHANGED wvars

\* line 196, generator suspended at line 112 or 115: it returns, and
\* lines 204-205 handle StopIteration
CallNextStop ==
    /\ pc = "for"
    /\ LET bot_name == Head(todo) IN
        /\ generators[bot_name] \in {"at_done", "at_error"}
        /\ generators' = [generators EXCEPT ![bot_name] = "finished"]
        /\ active_bots' = Remove(active_bots, bot_name)
    /\ todo' = Tail(todo)
    /\ pc' = NextPc(Tail(todo))
    /\ UNCHANGED <<chunk, out, conn, ready, script>>
    /\ UNCHANGED wvars

\* the provider: data, end of stream, a failure or the 60 s timeout becomes
\* available on the connection of a persona whose request has been sent
Arrive(b) ==
    /\ generators[b] \in {"waiting", "at_token"}
    /\ ~ready[b]
    /\ ready' = [ready EXCEPT ![b] = TRUE]
    /\ UNCHANGED <<pc, generators, active_bots, todo, chunk, out, conn, script>>
    /\ UNCHANGED wvars

\* what generate yields for an upstream event that ends the wait
Yielded(bot_name, ev) ==
    IF ev.k = "chunk" THEN TokenChunk(bot_name, ev.v)
    ELSE IF ev.k = "end" THEN DoneChunk(bot_name)
    ELSE ErrorChunk(bot_name, ev.v)

SuspendedAt(ev) ==
    IF ev.k = "chunk" THEN "at_token"
    ELSE IF ev.k = "end" THEN "at_done" ELSE "at_error"

\* lines 109-110: a delta without content is read and skipped
ReceiveSkip ==
    /\ pc = "blocked"
    /\ LET bot_name == Head(todo) IN
        /\ ready[bot_name]
        /\ Len(script[bot_name]) < MaxChunks
        /\ \E ev \in UpstreamEvents :
            /\ ev.k = "chunk"
            /\ ~HasContent(ev.v)
            /\ script' = [script EXCEPT ![bot_name] = Append(@, ev)]
        /\ ready' = [ready EXCEPT ![bot_name] = FALSE]
    /\ UNCHANGED <<pc, generators, active_bots, todo, chunk, out, conn>>
    /\ UNCHANGED wvars

\* lines 109-112 and 196-197: generate yields a token or the done record,
\* event_stream yields it
ReceiveYield ==
    /\ pc = "blocked"
    /\ LET bot_name == Head(todo) IN
        /\ ready[bot_name]
        /\ \E ev \in UpstreamEvents :
            /\ ev.k # "fail"
            /\ ev.k = "chunk" => HasContent(ev.v) /\ Len(script[bot_name]) < MaxChunks
            /\ script' = [script EXCEPT ![bot_name] = Append(@, ev)]
            /\ generators' = [generators EXCEPT ![bot_name] = SuspendedAt(ev)]
            /\ chunk' = Yielded(bot_name, ev)
            /\ out' = Append(out, Yielded(bot_name, ev))
        /\ ready' = [ready EXCEPT ![bot_name] = FALSE]
    /\ pc' = "yielded"
    /\ UNCHANGED <<active_bots, todo, conn>>
    /\ UNCHANGED wvars

\* lines 113-115 and 196-197: creating the request or reading the response
\* raises (network error, provider error, malformed framing, timeout); the
\* except clause turns it into the error record
ReceiveFail ==
    /\ pc = "blocked"
    /\ LET bot_name == Head(todo) IN
        /\ ready[bot_name]
        /\ \E ev \in UpstreamEvents :
            /\ ev.k = "fail"
            /\ script' = [script EXCEPT ![bot_name] = Append(@, ev)]
            /\ IF Catches(ev.v)
               THEN /\ generators' = [generators EXCEPT ![bot_name] = SuspendedAt(ev)]
                    /\ chunk' = Yielded(bot_name, ev)
                    /\ out' = Append(out, Yielded(bot_name, ev))
                    /\ pc' = "yielded"
               ELSE /\ generators' = [generators EXCEPT ![bot_name] = "raised"]
                    /\ pc' = "crashed"
                    /\ UNCHANGED <<chunk, out>>
        /\ ready' = [ready EXCEPT ![bot_name] = FALSE]
    /\ UNCHANGED <<active_bots, todo, conn>>
    /\ UNCHANGED wvars

\* lines 198-203: the consumer asks for the next record; the chunk just
\* yielded is parsed and a terminal record removes the persona
AfterYield ==
    /\ pc = "yielded"
    /\ LET bot_name == Head(todo) IN
        active_bots' = IF Recognised(chunk)
                       THEN Remove(active_bots, bot_name) ELSE active_bots
    /\ todo' = Tail(todo)
    /\ pc' = NextPc(Tail(todo))
    /\ UNCHANGED <<generators, chunk, out, conn, ready, script>>
    /\ UNCHANGED wvars

\* the consumer closes the combined stream while it is suspended at line 197;
\* event_stream has no finally clause and closes nothing itself
Cancel ==
    /\ pc = "yielded"
    /\ pc' = "cancelled"
    /\ UNCHANGED <<generators, active_bots, todo, chunk, out, conn, ready, script>>
    /\ UNCHANGED wvars

\* the consumer reads past all_done: event_stream returns
Finish ==
    /\ pc = "alldone"
    /\ pc' = "finished"
    /\ UNCHANGED <<generators, active_bots, todo, chunk, out, conn, ready, script>>
    /\ UNCHANGED wvars

\* generate never closes its client or stream: they go away only when the
\* runtime finalizes the frame that holds them, which it can do once the
\* generator has returned or the dict generators is no longer referenced
Finalize(b) ==
    /\ b \in conn
    /\ \/ generators[b] = "finished"
       \/ pc \in {"finished", "cancelled", "crashed"}
    /\ conn' = conn \ {b}
    /\ UNCHANGED <<pc, generators, active_bots, todo, chunk, out, ready, script>>
    /\ UNCHANGED wvars

Next ==
    \/ Start
    \/ BeginPass
    \/ EmitAllDone
    \/ CallNextFirst
    \/ CallNextResume
    \/ CallNextStop
    \/ \E b \in Bots : Arrive(b)
    \/ ReceiveSkip
    \/ ReceiveYield
    \/ ReceiveFail
    \/ AfterYield
    \/ Cancel
    \/ Finish
    \/ \E b \in Bots : Finalize(b)

Spec == Init /\ [][Next]_vars

\* the consumer keeps reading, the interpreter keeps running, and the client
\* is built with timeout=60.0 (line 96), so a read that gets nothing ends in
\* a timeout failure: every wait of the provider comes to an end
FairSpec ==
    /\ Spec
    /\ WF_vars(Start) /\ WF_vars(BeginPass) /\ WF_vars(EmitAllDone)
    /\ WF_vars(CallNextFirst) /\ WF_vars(CallNextResume) /\ WF_vars(CallNextStop)
    /\ \A b \in Bots : WF_vars(Arrive(b))
    /\ WF_vars(ReceiveYield \/ ReceiveFail)
    /\ WF_vars(AfterYield)

\* ------------------------------------------------ startup and the routes
\* the state in which the module is imported: nothing is configured yet and
\* no fan-out runs
WebInit ==
    /\ pc = "idle"
    /\ generators = [b \in Bots |-> "created"]
    /\ active_bots = <<>>
    /\ todo = <<>>
    /\ chunk = <<>>
    /\ out = <<>>
    /\ conn = {}
    /\ ready = [b \in Bots |-> FALSE]
    /\ script = [b \in Bots |-> <<>>]
    /\ proc = "starting"
    /\ env \in [EnvNames -> EnvValues]
    /\ log = <<>>
    /\ session = EmptySession
    /\ nreq = 0
    /\ synth_calls = 0
    /\ fanouts = 0
    /\ writes = 0
    /\ req = Request("", {}, FALSE)
    /\ resp = NoResponse

\* lines 28-61: the module level checks, in their order; sys.exit(1) ends the
\* import before app.run is reached
Startup ==
    /\ proc = "starting"
    /\ IF SecretMissing(env["SESSION_SECRET"])
       THEN /\ log' = Append(log, "FATAL: SESSION_SECRET is not set")
            /\ proc' = "exited"
       ELSE IF GoogleMissing(env["GOOGLE_CLIENT_ID"], env["GOOGLE_CLIENT_SECRET"])
       THEN /\ log' = Append(log, "FATAL: GOOGLE_CLIENT_ID or GOOGLE_CLIENT_SECRET is not set")
            /\ proc' = "exited"
       ELSE IF KeyMissing(env["OPENROUTER_API_KEY"])
       THEN /\ log' = Append(log, "FATAL: OPENROUTER_API_KEY missing")
            /\ proc' = "exited"
       ELSE /\ log' = log
            /\ proc' = "serving"
    /\ UNCHANGED <<env, session, nreq, synth_calls, fanouts, writes, req, resp>>
    /\ UNCHANGED cvars

\* a request is handled by the running process
Accepts == proc = "serving" /\ nreq < MaxRequests

\* lines 127-129
login_page ==
    /\ Accepts
    /\ nreq' = nreq + 1
    /\ req' = Request("login", {}, FALSE)
    /\ resp' = Response("login", 200, "html", <<"login.html">>)
    /\ UNCHANGED <<proc, env, log, session, synth_calls, fanouts, writes>>
    /\ UNCHANGED cvars

\* lines 131-135
auth ==
    /\ Accepts
    /\ nreq' = nreq + 1
    /\ req' = Request("auth", {}, FALSE)
    /\ session' = [session EXCEPT !["state"] = "s"]
    /\ resp' = Response("auth", 302, "redirect", <<"accounts.google.com">>)
    /\ UNCHANGED <<proc, env, log, synth_calls, fanouts, writes>>
    /\ UNCHANGED cvars

\* lines 137-150: fetch_token or the userinfo call raises, or the identity is
\* stored in the session
callback ==
    /\ Accepts
    /\ nreq' = nreq + 1
    /\ req' = Request("callback", {}, FALSE)
    /\ \E fetched \in BOOLEAN :
        IF fetched
        THEN /\ session' = [session EXCEPT !["google_id"] = "u1",
                                           !["name"] = "n", !["picture"] = "p"]
             /\ resp' = Response("callback", 302, "redirect", <<"/">>)
        ELSE /\ session' = session
             /\ resp' = RedirectLogin("callback")
    /\ UNCHANGED <<proc, env, log, synth_calls, fanouts, writes>>
    /\ UNCHANGED cvars

\* lines 152-155
logout ==
    /\ Accepts
    /\ nreq' = nreq + 1
    /\ req' = Request("logout", {}, FALSE)
    /\ session' = EmptySession
    /\ resp' = RedirectLogin("logout")
    /\ UNCHANGED <<proc, env, log, synth_calls, fanouts, writes>>
    /\ UNCHANGED cvars

\* lines 158-161 behind login_is_required (lines 118-124)
index ==
    /\ Accepts
    /\ nreq' = nreq + 1
    /\ req' = Request("index", {}, FALSE)
    /\ resp' = IF IsLoggedIn(session)
               THEN Response("index", 200, "html", <<"index.html">>)
               ELSE RedirectLogin("index")
    /\ UNCHANGED <<proc, env, log, session, synth_calls, fanouts, writes>>
    /\ UNCHANGED cvars

\* lines 163-208 behind login_is_required: the handler reads the attached
\* files and hands event_stream() to Response
chat ==
    /\ Accepts
    /\ nreq' = nreq + 1
    /\ req' = Request("chat", {}, FALSE)
    /\ IF IsLoggedIn(session)
       THEN /\ fanouts' = fanouts + 1
            /\ resp' = Response("chat", 200, "stream", <<>>)
       ELSE /\ fanouts' = fanouts
            /\ resp' = RedirectLogin("chat")
    /\ UNCHANGED <<proc, env, log, session, synth_calls, writes>>
    /\ UNCHANGED cvars

\* lines 210-223 behind login_is_required: named files are saved
upload ==
    /\ Accepts
    /\ nreq' = nreq + 1
    /\ req' = Request("upload", {}, FALSE)
    /\ \E has_files \in BOOLEAN, named \in 0..MaxFiles :
        IF ~IsLoggedIn(session)
        THEN /\ writes' = writes
             /\ resp' = RedirectLogin("upload")
        ELSE IF ~has_files
        THEN /\ writes' = writes
             /\ resp' = Response("upload", 400, "json",
                                 <<"urls", "error", "No files provided">>)
        ELSE /\ writes' = writes + named
             /\ resp' = Response("upload", 200, "json", <<"urls">>)
    /\ UNCHANGED <<proc, env, log, session, synth_calls, fanouts>>
    /\ UNCHANGED cvars

\* lines 225-245 behind login_is_required: answers is the map of the body, {}
\* when the body has none; the one create call returns or raises, and nothing
\* in asklurk or in the app handles the exception
asklurk ==
    /\ Accepts
    /\ nreq' = nreq + 1
    /\ \E answers \in SUBSET AnswerKeys, returned \in BOOLEAN :
        /\ req' = Request("asklurk", answers, returned)
        /\ IF ~IsLoggedIn(session)
           THEN /\ synth_calls' = synth_calls
                /\ resp' = RedirectLogin("asklurk")
           ELSE IF NotAnswers(answers)
           THEN /\ synth_calls' = synth_calls
                /\ resp' = Response("asklurk", 400, "json",
                                    <<"best", "", "error", "No responses to analyze">>)
           ELSE /\ synth_calls' = synth_calls + 1
                /\ resp' = IF returned
                           THEN Response("asklurk", 200, "json", <<"best", "text">>)
                           ELSE Response("asklurk", 500, "html",
                                         <<"Internal Server Error">>)
    /\ UNCHANGED <<proc, env, log, session, fanouts, writes>>
    /\ UNCHANGED cvars

\* lines 248-250
health ==
    /\ Accepts
    /\ nreq' = nreq + 1
    /\ req' = Request("health", {}, FALSE)
    /\ resp' = Response("health", 200, "json",
                        <<"status", "ok", "api_key_configured",
                          IF Truthy(env["OPENROUTER_API_KEY"])
                          THEN "true" ELSE "false">>)
    /\ UNCHANGED <<proc, env, log, session, synth_calls, fanouts, writes>>
    /\ UNCHANGED cvars

WebNext ==
    \/ Startup
    \/ login_page
    \/ auth
    \/ callback
    \/ logout
    \/ index
    \/ chat
    \/ upload
    \/ asklurk
    \/ health

WebSpec == WebInit /\ [][WebNext]_vars

\* ------------------------------------------------- reading the output back
IsBotRecord(c) == Len(c) >= 5 /\ c[3] = "bot"
KindIs(c, kind) == IsBotRecord(c) /\ c[5] = kind
IsTerminalRecord(c) == KindIs(c, "done") \/ KindIs(c, "error")

\* the records of persona b in s, in order
Proj(s, b) == SelectSeq(s, LAMBDA c : IsBotRecord(c) /\ c[4] = b)

CountKind(s, kind) == Cardinality({i \in 1..Len(s) : KindIs(s[i], kind)})
AllDoneCount == Cardinality({i \in 1..Len(out) : out[i] = AllDoneChunk})

\* the source sequence of persona b for the upstream events scr
RECURSIVE Expected(_, _)
Expected(b, scr) ==
    IF scr = <<>> THEN <<>>
    ELSE LET ev == Head(scr)
             rec == IF ev.k = "chunk"
                    THEN IF ev.v = <<>> THEN <<>> ELSE <<TokenChunk(b, ev.v)>>
                    ELSE IF ev.k = "end" THEN <<DoneChunk(b)>>
                    ELSE <<ErrorChunk(b, ev.v)>>
         IN  rec \o Expected(b, Tail(scr))

EndsWith(scr, k) == scr # <<>> /\ scr[Len(scr)].k = k
Complete(scr) == EndsWith(scr, "end") \/ EndsWith(scr, "fail")
TerminalReached(b) == generators[b] \in {"at_done", "at_error", "finished"}
Completed == pc \in {"alldone", "finished"}
InActive(b) == \E i \in 1..Len(active_bots) : active_bots[i] = b

\* scr is k deltas with content followed by the end of the stream
KTokensThenDone(scr, k) ==
    /\ Len(scr) = k + 1
    /\ scr[k + 1].k = "end"
    /\ \A i \in 1..k : scr[i].k = "chunk" /\ scr[i].v # <<>>

\* ------------------------------------------------------------------ claims

\* C1: the combined stream holds at most one all_done record; an all_done
\* record is the last record and is emitted only when every persona has
\* reached its terminal state; a stream that ran to its end holds exactly one.
C1_AllDoneOnceLast ==
    /\ AllDoneCount <= 1
    /\ \A i \in 1..Len(out) :
          out[i] = AllDoneChunk =>
              /\ i = Len(out)
              /\ \A b \in Bots : TerminalReached(b) /\ Complete(script[b])
    /\ Completed => AllDoneCount = 1 /\ out[Len(out)] = AllDoneChunk

C1_Witness ==
    /\ pc = "alldone"
    /\ CountKind(out, "text") >= 2
    /\ CountKind(out, "done") >= 1
    /\ CountKind(out, "error") >= 1

\* C2: at every moment the records of one persona in the combined stream are
\* exactly the records its source has produced, in the same order; when the
\* stream has run to its end every source was read to its terminal record;
\* N sources of k tokens then done give N*k tokens, N done and one all_done.
C2_ProjectionIsSource ==
    /\ \A b \in Bots : Proj(out, b) = Expected(b, script[b])
    /\ Completed =>
          /\ \A b \in Bots : Complete(script[b])
          /\ \A k \in 0..(MaxChunks + 1) :
                (\A b \in Bots : KTokensThenDone(script[b], k)) =>
                    /\ CountKind(out, "text") = NumBots * k
                    /\ CountKind(out, "done") = NumBots
                    /\ CountKind(out, "error") = 0
                    /\ AllDoneCount = 1
                    /\ Len(out) = NumBots * k + NumBots + 1

C2_Witness ==
    /\ pc = "alldone"
    /\ \A b \in Bots :
          /\ KTokensThenDone(script[b], 2)
          /\ script[b][1].v # script[b][2].v

\* C3: in every prefix of the combined stream each persona has at most one
\* terminal record and no token after it, and a generator is resumed only
\* while its persona is in active_bots.
C3_StateInv ==
    \A b \in Bots :
        LET p == Proj(out, b)
        IN  \A i \in 1..Len(p) : IsTerminalRecord(p[i]) => i = Len(p)

C3_PolledOnlyIfActive ==
    \A b \in Bots :
        (generators[b] \in Suspended /\ generators'[b] # generators[b])
            => InActive(b)

C3_TerminalOrdering == [](C3_StateInv) /\ [][C3_PolledOnlyIfActive]_vars

C3_Witness ==
    \E b, c \in Bots :
        /\ b # c
        /\ ~InActive(b)
        /\ \E i, j \in 1..Len(out) :
              /\ i < j
              /\ IsTerminalRecord(out[i]) /\ out[i][4] = b
              /\ KindIs(out[j], "text") /\ out[j][4] = c

\* C4: an upstream failure of one persona never ends the combined stream with
\* an exception; when one source ended in an error record and the others in
\* done, the stream that ran to its end holds exactly one error record, of
\* that persona, every record of the others, and all_done as last record.
C4_ErrorDoesNotStall ==
    /\ pc = "crashed" =>
          \E b \in Bots : generators[b] = "raised" /\ script[b] = <<>>
    /\ \A b \in Bots :
          EndsWith(script[b], "fail") =>
              CountKind(Proj(out, b), "error") = 1
    /\ \A b \in Bots :
          ( /\ Completed
            /\ EndsWith(script[b], "fail")
            /\ \A c \in Bots \ {b} : EndsWith(script[c], "end") )
          => /\ CountKind(out, "error") = 1
             /\ CountKind(out, "done") = NumBots - 1
             /\ \A c \in Bots \ {b} : Proj(out, c) = Expected(c, script[c])
             /\ out[Len(out)] = AllDoneChunk

C4_Witness ==
    /\ pc = "alldone"
    /\ script[Keys[2]] = <<[k |-> "fail", v |-> <<"a">>]>>
    /\ KTokensThenDone(script[Keys[1]], 2)
    /\ out[Len(out) - 1] = DoneChunk(Keys[1])

\* C5: no failure of a persona's upstream client leaves generate or the
\* combined stream as an exception.
C5_NoFailureEscapes ==
    /\ pc # "crashed"
    /\ \A b \in Bots : generators[b] # "raised"

\* C6: when the first event of any persona is awaited or has been forwarded,
\* the upstream request of every persona has been started.
C6_AllStartedBeforeFirstAwait ==
    (pc = "blocked" \/ out # <<>>) =>
        \A b \in Bots : generators[b] # "created"

\* C7: after the consumer has cancelled the combined stream no upstream
\* connection of the fan-out is open.
C7_CancelClosesConnections == pc = "cancelled" => conn = {}

\* C8: the connection of a persona that has reached its terminal state is
\* closed, and none is open once all_done has been emitted.
C8_TerminalMeansClosed ==
    /\ \A b \in Bots : TerminalReached(b) => b \notin conn
    /\ AllDoneCount > 0 => conn = {}

\* C9: every fan-out that is not cancelled eventually emits all_done.
C9_EventuallyAllDone == <>(AllDoneCount = 1 \/ pc = "cancelled")

\* C10: the multiplexer never waits for a persona that has nothing to read
\* while another active persona has an event ready.
C10_NoHeadOfLineBlocking ==
    ~ ( /\ pc = "blocked"
        /\ ~ready[Head(todo)]
        /\ \E q \in Bots : q # Head(todo) /\ InActive(q) /\ ready[q] )

\* C11: every pass of the while loop polls every persona that is active, so
\* at the end of a pass all active personas have been polled equally often,
\* and no active persona is ever more than one poll ahead of another.
Polls(b) ==
    Len(Proj(out, b))
        + (IF generators[b] \in {"waiting", "finished", "raised"} THEN 1 ELSE 0)

C11_EveryActivePolledEachPass ==
    /\ pc = "while" =>
          \A b, c \in Bots :
              InActive(b) /\ InActive(c) => Polls(b) = Polls(c)
    /\ \A b, c \in Bots :
          InActive(b) /\ InActive(c) => Polls(b) - Polls(c) <= 1

C11_Witness ==
    /\ pc = "while"
    /\ Len(active_bots) = NumBots
    /\ \A b \in Bots : Polls(b) = 2 /\ generators[b] = "at_token"

\* C12: a synthesis request whose answer map is empty or absent makes no
\* upstream call, and a logged-in caller gets the 400 response
\* {best: "", error: ...}.
HandledStep(route) == nreq' = nreq + 1 /\ req'.route = route

C12_Step ==
    (HandledStep("asklurk") /\ req'.answers = {}) =>
        /\ synth_calls' = synth_calls
        /\ fanouts' = fanouts
        /\ session["google_id"] # Absent =>
              /\ resp'.status = 400
              /\ resp'.kind = "json"
              /\ resp'.body = <<"best", "", "error", "No responses to analyze">>

C12_EmptyAnswersRejected == [][C12_Step]_vars

C12_Witness ==
    /\ req.route = "asklurk"
    /\ req.answers = {}
    /\ session["google_id"] # Absent
    /\ resp.status = 400
    /\ synth_calls = 0

\* C13: a synthesis request of a logged-in caller with a non-empty answer map
\* makes exactly one upstream call, never answers with a stream, and answers
\* {best: text} when that call returns.
C13_Step ==
    (HandledStep("asklurk") /\ req'.answers # {} /\ session["google_id"] # Absent) =>
        /\ synth_calls' = synth_calls + 1
        /\ resp'.kind # "stream"
        /\ req'.returned =>
              resp' = Response("asklurk", 200, "json", <<"best", "text">>)

C14_FailureIsJsonError ==
    ( /\ req.route = "asklurk"
      /\ req.answers # {}
      /\ ~req.returned
      /\ session["google_id"] # Absent )
    => /\ resp.kind = "json"
       /\ \E i \in 1..Len(resp.body) : resp.body[i] = "error"

\* C15: a request on a session without an identity makes no upstream call,
\* starts no fan-out and writes no file, and is redirected to the login page
\* unless it is the health check or one of the login routes; an identity is
\* gained only by a successful callback, and logout removes it.
LoginRoutes == {"login", "auth", "callback", "logout"}

C15_Step ==
    nreq' = nreq + 1 =>
        /\ session["google_id"] = Absent =>
              /\ synth_calls' = synth_calls
              /\ fanouts' = fanouts
              /\ writes' = writes
              /\ req'.route \notin LoginRoutes \cup {"health"} =>
                    resp' = RedirectLogin(req'.route)
        /\ (session["google_id"] = Absent /\ session'["google_id"] # Absent) =>
              /\ req'.route = "callback"
              /\ resp' = Response("callback", 302, "redirect", <<"/">>)
        /\ req'.route = "logout" => session'["google_id"] = Absent
        /\ req'.route \in {"index", "chat", "upload", "asklurk"} =>
              session' = session

C15_AuthenticatedOnly == [][C15_Step]_vars

C15_Witness ==
    /\ session["google_id"] = Absent
    /\ session["state"] # Absent
    /\ req.route = "chat"
    /\ resp = RedirectLogin("chat")
    /\ nreq = MaxRequests
    /\ fanouts = 0

\* C16: the process serves requests only with every required credential
\* present; with one missing it has logged the error and exited without
\* having handled a request.
AllCredentials == \A n \in EnvNames : env[n] # Unset /\ env[n] # ""

C16_MissingCredentialExits ==
    /\ (proc = "serving" \/ nreq > 0) => AllCredentials
    /\ proc = "exited" => ~AllCredentials /\ Len(log) = 1 /\ nreq = 0
    /\ (~AllCredentials /\ proc # "starting") => proc = "exited"

C16_Witness ==
    /\ proc = "exited"
    /\ env["GOOGLE_CLIENT_SECRET"] = ""
    /\ \A n \in EnvNames \ {"GOOGLE_CLIENT_SECRET"} : env[n] = "v"
    /\ log = <<"FATAL: GOOGLE_CLIENT_ID or GOOGLE_CLIENT_SECRET is not set">>

\* C17: the records generate has yielded for a persona are tokens only while
\* its stream runs, and tokens followed by exactly one done or error record
\* once its stream has ended; no stream ends without a terminal record.
C17_StreamShape ==
    \A b \in Bots :
        LET p == Proj(out, b)
        IN  /\ \A i \in 1..Len(p) :
                  IF i = Len(p) /\ TerminalReached(b)
                  THEN IsTerminalRecord(p[i]) ELSE KindIs(p[i], "text")
            /\ TerminalReached(b) => p # <<>>
            /\ generators[b] # "raised"

\* C18: the combined stream is the round-robin merge of the source sequences
\* in the order of MODELS: pass i holds the i-th record of every source that
\* has one; all_done follows when the stream has run to its end.
RECURSIVE RoundFrom(_, _, _)
RoundFrom(src, i, k) ==
    IF k > Len(Keys) THEN <<>>
    ELSE (IF Len(src[Keys[k]]) >= i THEN <<src[Keys[k]][i]>> ELSE <<>>)
             \o RoundFrom(src, i, k + 1)

RECURSIVE Merge(_, _)
Merge(src, i) ==
    IF \A b \in Bots : Len(src[b]) < i THEN <<>>
    ELSE RoundFrom(src, i, 1) \o Merge(src, i + 1)

Sources == [b \in Bots |-> Expected(b, script[b])]

C18_Deterministic ==
    IF AllDoneCount > 0
    THEN out = Merge(Sources, 1) \o <<AllDoneChunk>>
    ELSE out = Merge(Sources, 1) /\ ~Completed

C18_Witness ==
    /\ pc = "alldone"
    /\ Len(Sources[Keys[1]]) = 1
    /\ Len(Sources[Keys[2]]) = 3
    /\ Len(script[Keys[1]]) = 2

\* C19: a persona whose error record the terminal test does not recognise
\* (empty message, or a message holding 'data: ') stays active, is removed by
\* its next poll, which emits nothing, and does not keep all_done from being
\* reached once every source has ended.
UnrecognisedMessage(msg) == msg = <<>> \/ \E i \in 1..Len(msg) : msg[i] = SEP

UnrecognisedError(b) ==
    /\ EndsWith(script[b], "fail")
    /\ UnrecognisedMessage(script[b][Len(script[b])].v)

C19_StateInv ==
    \A b \in Bots :
        /\ (UnrecognisedError(b) /\ generators[b] = "at_error") => InActive(b)
        /\ generators[b] = "finished" =>
              /\ UnrecognisedError(b)
              /\ ~InActive(b)
              /\ Proj(out, b) = Expected(b, script[b])
        /\ (Completed /\ UnrecognisedError(b)) => generators[b] = "finished"

C19_StopStep ==
    \A b \in Bots :
        (generators[b] = "at_error" /\ generators'[b] # "at_error") =>
            /\ UnrecognisedError(b)
            /\ generators'[b] = "finished"
            /\ out' = out
            /\ active_bots' = SelectSeq(active_bots, LAMBDA c : c # b)

\* once every source has ended the multiplexer is never stuck, and each of its
\* steps lowers StepsLeft: it reaches all_done unless the consumer cancels
AllEnded == \A c \in Bots : TerminalReached(c)

StepsLeft ==
    (2 * NumBots + 4) * Len(active_bots)
        + (CASE pc = "yielded" -> NumBots + 2 + Len(todo)
             [] pc = "while" -> NumBots + 1
             [] pc = "for" -> Len(todo)
             [] OTHER -> 0)

C19_NotStuck ==
    (AllEnded /\ \E b \in Bots : UnrecognisedError(b)) =>
        /\ pc \in {"while", "for", "yielded", "alldone", "finished", "cancelled"}
        /\ pc = "for" =>
              /\ todo # <<>>
              /\ generators[Head(todo)] \in {"at_done", "at_error"}
        /\ pc \in {"alldone", "finished"} => AllDoneCount = 1

C19_Progress ==
    (AllEnded /\ <<pc, todo, active_bots>>' # <<pc, todo, active_bots>>) =>
        \/ pc' = "cancelled"
        \/ pc' = "finished" /\ pc = "alldone"
        \/ StepsLeft' < StepsLeft

C19_UnrecognisedErrorRemoved ==
    /\ [](C19_StateInv /\ C19_NotStuck)
    /\ [][C19_StopStep /\ C19_Progress]_vars

C19_Witness ==
    /\ pc = "alldone"
    /\ script[Keys[1]] = <<[k |-> "fail", v |-> <<>>]>>
    /\ script[Keys[2]] = <<[k |-> "chunk", v |-> <<"a">>], [k |-> "fail", v |-> <<SEP>>]>>
    /\ \A b \in Bots : generators[b] = "finished"

\* C20: while the process serves requests the upstream credential is set, and
\* every health response reports api_key_configured = true.
C20_HealthReportsKey ==
    /\ proc = "serving" =>
          env["OPENROUTER_API_KEY"] # Unset /\ env["OPENROUTER_API_KEY"] # ""
    /\ req.route = "health" =>
          resp.body = <<"status", "ok", "api_key_configured", "true">>

C20_Witness ==
    /\ req.route = "health"
    /\ resp.status = 200
    /\ resp.body[4] = "true"

====
